---------------------------- MODULE Spec2Model ----------------------------
(***************************************************************************)
(* Model of src/main.py: the SMS -> language model -> SMS relay.           *)
(*                                                                         *)
(* Every inbound HTTP request is handled by its own server thread          *)
(* (incoming), every accepted message by its own worker thread             *)
(* (process_prompt_with_delay) and every debounce timer by its own timer   *)
(* thread (threading.Timer running send_pending_reply).  The threads share *)
(* the module-level dictionaries and the gateway cursor; only the cursor   *)
(* is guarded by a lock.  A step of the model is one access of a thread to *)
(* the shared state, together with the thread-local computation around it. *)
(*                                                                         *)
(* Strings the handler inspects (the message content) are sequences of     *)
(* one-character strings, and strip / lower / startswith / slicing are     *)
(* computed on them.  A text produced by the model backend is described by *)
(* its shape: the number of leading blanks, of core characters and of      *)
(* trailing blanks, and whether the truncation marker has been appended.   *)
(***************************************************************************)
EXTENDS Integers, Sequences, FiniteSets, TLC

\* ------------------------------------------------------------ bounds
\* the exchanges a sender has had before the model starts
Past == 5
\* the requests that arrive in a run (one more in SpecDebounce)
NewRequests == 2
\* the timer intervals after which the clock of SpecDebounce and of
\* SpecGateway stops
Horizon == 2

\* --------------------------------------------------- program constants
REPEAT_TIMEOUT == 30
MAX_CONTEXT_LEN == 10
MAX_SMS_CHARS == 2400
TIMER_INTERVAL == 2
NumGateways == 2
MarkerLen == 15

\* GATEWAYS is a list of NumGateways descriptors; a descriptor is named
\* by its list position (Python index 0 .. len-1).
GATEWAYS == [i \in 0 .. NumGateways - 1 |-> [PROJECT_ID |-> i, PHONE_ID |-> i]]

WHITELIST == {"a", "b"}
\* the phone numbers that occur as keys: the allow-list and a stranger
Numbers == WHITELIST \cup {"x"}
\* from_number absent from the payload (None) or empty: falsy in Python.
NoNumber == ""
TRIGGER_PREFIX == <<"C", "h", "a", "t">>


\* ------------------------------------------------------ string helpers
UpperChars == <<"A", "B", "C", "H", "T">>
LowerChars == <<"a", "b", "c", "h", "t">>

LowerChar(c) ==
  IF \E i \in 1 .. Len(UpperChars) : UpperChars[i] = c
  THEN LowerChars[CHOOSE i \in 1 .. Len(UpperChars) : UpperChars[i] = c]
  ELSE c

\* str.lower()
StrLower(s) == [i \in 1 .. Len(s) |-> LowerChar(s[i])]

IsSpace(c) == c = " "

RECURSIVE LStrip(_)
LStrip(s) == IF s # <<>> /\ IsSpace(Head(s)) THEN LStrip(Tail(s)) ELSE s

RECURSIVE RStrip(_)
RStrip(s) ==
  IF s # <<>> /\ IsSpace(s[Len(s)]) THEN RStrip(SubSeq(s, 1, Len(s) - 1)) ELSE s

\* str.strip()
Strip(s) == RStrip(LStrip(s))

\* str.startswith(p)
StartsWith(s, p) == Len(s) >= Len(p) /\ SubSeq(s, 1, Len(p)) = p

\* s[n:]
SliceFrom(s, n) == SubSeq(s, n + 1, Len(s))

\* hashlib.sha256(content.encode()).hexdigest(): two contents have the
\* same digest exactly when they are the same string.  None is NoHash.
NoHash == <<>>
sha256(s) == <<"sha256">> \o s

\* s[i : i + len(p)] == p for some i
Contains(s, p) ==
  \E i \in 0 .. Len(s) - Len(p) : SubSeq(s, i + 1, i + Len(p)) = p

\* Variant: the trigger is looked for anywhere in the content (in, not startswith).
HasTriggerAnywhere(content) ==
  Contains(StrLower(Strip(content)), StrLower(TRIGGER_PREFIX))

\* content.strip().lower().startswith(TRIGGER_PREFIX.lower())
HasTrigger(content) == StartsWith(StrLower(Strip(content)), StrLower(TRIGGER_PREFIX))

\* content[len(TRIGGER_PREFIX):].strip()
PromptOf(content) == Strip(SliceFrom(content, Len(TRIGGER_PREFIX)))

\* ------------------------------------------------------------- texts
\* A literal string held in a conversation turn, a pending reply or an SMS.
Str(s) == [kind |-> "str", s |-> s]
\* The text the backend produced for worker id: lead blanks, core
\* characters, trail blanks, and the truncation marker if appended.
Gen(id, lead, core, trail, marker) ==
  [kind |-> "gen", id |-> id, lead |-> lead, core |-> core, trail |-> trail,
   marker |-> marker]

\* len(text)
TextLen(t) ==
  IF t.kind = "str" THEN Len(t.s)
  ELSE t.lead + t.core + t.trail + (IF t.marker THEN MarkerLen ELSE 0)

\* text.strip() of a backend text (its core neither starts nor ends blank)
TextStrip(t) == Gen(t.id, 0, t.core, 0, t.marker)

Min(a, b) == IF a < b THEN a ELSE b

\* text[:n] of a stripped backend text without marker
TextPrefix(t, n) == Gen(t.id, 0, Min(t.core, n), 0, FALSE)

\* text + "\n[...truncated]"
WithMarker(t) == Gen(t.id, t.lead, t.core, t.trail, TRUE)

API_ERROR_REPLY == Str(<<"API error">>)
UNAVAILABLE_REPLY == Str(<<"unavailable">>)

\* Variant: a reply of exactly MAX_SMS_CHARS characters is cut too (>= for >).
TruncateFromLimit(reply) ==
  IF TextLen(reply) >= MAX_SMS_CHARS
  THEN WithMarker(TextPrefix(reply, MAX_SMS_CHARS))
  ELSE reply

\* lines 151-153: the reply cut to MAX_SMS_CHARS characters plus marker
Truncate(reply) ==
  IF TextLen(reply) > MAX_SMS_CHARS
  THEN WithMarker(TextPrefix(reply, MAX_SMS_CHARS))
  ELSE reply

\* lines 137-138: the most recent MAX_CONTEXT_LEN turns
LastTurns(ctx) ==
  IF Len(ctx) > MAX_CONTEXT_LEN
  THEN SubSeq(ctx, Len(ctx) - MAX_CONTEXT_LEN + 1, Len(ctx))
  ELSE ctx


\* ------------------------------------------------------------- state
VARIABLES
  now,              \* time.time(), in seconds relative to the model's start
  recent_messages,  \* from_number -> <<>> (no entry) or <<(hash, timestamp)>>
  user_contexts,    \* from_number -> list of turns
  pending_replies,  \* from_number -> <<>> (no entry) or <<reply>>
  send_timers,      \* from_number -> <<>> (no entry) or <<timer>>
  gateway_index,    \* the round-robin cursor
  gateway_lock,     \* 0 when free, else the timer thread holding it
  req,              \* the server thread of each inbound request
  wrk,              \* the worker thread each accepted request starts
  tmr,              \* the Timer each worker creates, and its thread
  stores,           \* history: the replies line 114 stored, in order, and when
  sent,             \* history: the messages handed to Telerivet, in order
  picks             \* history: the cursor values pick_gateway handed out

vars == <<now, recent_messages, user_contexts, pending_replies, send_timers,
          gateway_index, gateway_lock, req, wrk, tmr, stores, sent, picks>>

\* The shared state of the core: the dictionaries, the cursor and its lock,
\* and the worker and timer threads.
coreState == <<recent_messages, user_contexts, pending_replies, send_timers,
               gateway_index, gateway_lock, wrk, tmr>>

IdleReq ==
  [pc |-> "idle", from_number |-> NoNumber, content |-> <<>>,
   last_hash |-> NoHash, last_time |-> 0, outcome |-> "none", empty |-> FALSE]

DoneReq(from_number, content, outcome) ==
  [pc |-> "done", from_number |-> from_number, content |-> content,
   last_hash |-> NoHash, last_time |-> 0, outcome |-> outcome, empty |-> FALSE]

\* The backend's answer to a worker: status 0 stands for an exception.
Response(status, lead, core, trail) ==
  [status |-> status, lead |-> lead, core |-> core, trail |-> trail]

\* resp (the answer the worker got) and reply (the reply it computed) stay
\* in the frame of a finished worker as history.
IdleWrk ==
  [pc |-> "none", from_number |-> NoNumber, prompt |-> <<>>, kept |-> <<>>,
   resp |-> <<>>, reply |-> <<>>]

DoneWrk(from_number, resp, reply) ==
  [IdleWrk EXCEPT !.pc = "done", !.from_number = from_number, !.resp = resp,
                  !.reply = reply]

IdleTmr ==
  [pc |-> "none", from_number |-> NoNumber, cancelled |-> FALSE, started |-> 0,
   reply |-> <<>>, gw |-> 0]

DoneTmr(from_number) == [IdleTmr EXCEPT !.pc = "done", !.from_number = from_number]

\* Variant: the cursor is read and not advanced.
NextIndexStuck(i) == i % NumGateways

\* line 39
NextIndex(i) == (i + 1) % NumGateways

UserTurn(prompt) == [role |-> "user", content |-> Str(prompt)]
AssistantTurn(reply) == [role |-> "assistant", content |-> reply]

\* The state the process is in after sender "a" has had k exchanges, one
\* every REPEAT_TIMEOUT seconds and the last one REPEAT_TIMEOUT seconds ago:
\* each was the message "Chat A", answered by a one-character text and
\* delivered before the next one arrived.  k = 0 is the state after start-up.
\* The threads of those exchanges have ended; the n requests that are still
\* to arrive are numbered from k + 1, and request r is served by server
\* thread r, worker r and timer r.
PastContent == <<"C", "h", "a", "t", " ", "A">>
PastReply(j) == Gen(j, 0, 1, 0, FALSE)
PastTime(k, j) == 0 - (k - j + 1) * REPEAT_TIMEOUT

RECURSIVE PastContext(_)
PastContext(k) ==
  IF k = 0 THEN <<>>
  ELSE Append(LastTurns(Append(PastContext(k - 1), UserTurn(PromptOf(PastContent)))),
              AssistantTurn(TextStrip(PastReply(k))))

RECURSIVE PastPicks(_)
PastPicks(k) ==
  IF k = 0 THEN <<>>
  ELSE Append(PastPicks(k - 1),
              IF k = 1 THEN 0 ELSE NextIndex(PastPicks(k - 1)[k - 1]))

InitAfter(k, n) ==
  /\ now = 0
  /\ recent_messages =
       [m \in Numbers |->
          IF m = "a" /\ k > 0
          THEN <<[hash |-> sha256(PastContent), time |-> PastTime(k, k)]>>
          ELSE <<>>]
  /\ user_contexts = [m \in Numbers |-> IF m = "a" THEN PastContext(k) ELSE <<>>]
  /\ pending_replies = [m \in Numbers |-> <<>>]
  /\ send_timers = [m \in Numbers |-> <<>>]
  /\ gateway_index = (IF k = 0 THEN 0 ELSE NextIndex(PastPicks(k)[k]))
  /\ gateway_lock = 0
  /\ req = [r \in k + 1 .. k + n |-> IdleReq]
  /\ wrk = [r \in k + 1 .. k + n |-> IdleWrk]
  /\ tmr = [r \in k + 1 .. k + n |-> IdleTmr]
  /\ stores = [j \in 1 .. k |->
                 [w |-> j, at |-> PastTime(k, j), from_number |-> "a",
                  reply |-> Truncate(TextStrip(PastReply(j)))]]
  /\ sent = [j \in 1 .. k |->
               [to_number |-> "a", content |-> Truncate(TextStrip(PastReply(j))),
                phone_id |-> GATEWAYS[PastPicks(k)[j]].PHONE_ID, timer |-> j]]
  /\ picks = PastPicks(k)

\* The clock advances by d seconds.
Tick(d) ==
  /\ now' = now + d
  /\ UNCHANGED <<recent_messages, user_contexts, pending_replies, send_timers,
                 gateway_index, gateway_lock, req, wrk, tmr, stores, sent, picks>>

Threads == DOMAIN req

\* The requests that are being served: their server thread or their worker
\* has not ended, or their timer is running its callback.
ReqActive(r) == req[r].pc \notin {"idle", "done"}
WrkActive(w) == wrk[w].pc \notin {"none", "done", "crashed"}
TmrActive(t) == tmr[t].pc \notin {"none", "waiting", "done"}
Busy == {r \in Threads : ReqActive(r) \/ WrkActive(r) \/ TmrActive(r)}

\* ---------------------------------------------------- incoming (64-100)
\* Requests are numbered in their order of arrival.
Arrives(r) == req[r].pc = "idle" /\ \A q \in Threads : q < r => req[q].pc # "idle"

Finish(r, from_number, content, outcome) ==
  req' = [req EXCEPT ![r] = DoneReq(from_number, content, outcome)]

\* lines 73-75: a request whose payload decodes to nothing
ReceiveEmpty(r) ==
  /\ Arrives(r)
  /\ req' = [req EXCEPT ![r] = [DoneReq(NoNumber, <<>>, "BadRequest")
                                  EXCEPT !.empty = TRUE]]
  /\ UNCHANGED <<now, coreState, stores, sent, picks>>

\* Variant: one dedup record for all senders, kept under the first number.
GetRecentShared(from_number) ==
  IF recent_messages["a"] = <<>>
  THEN [hash |-> NoHash, time |-> 0]
  ELSE recent_messages["a"][1]

\* recent_messages.get(from_number, (None, 0))
GetRecent(from_number) ==
  IF recent_messages[from_number] = <<>>
  THEN [hash |-> NoHash, time |-> 0]
  ELSE recent_messages[from_number][1]

\* Variant: the allow-list is not consulted.
AuthorizedAnyNumber(from_number) == from_number # NoNumber

\* line 80
Authorized(from_number) == from_number # NoNumber /\ from_number \in WHITELIST

\* lines 77-89: the payload has from_number (NoNumber when absent) and
\* content ("" when absent); the sender and the trigger are checked, and the
\* sender's dedup record is read.
Receive(r, from_number, content) ==
  /\ Arrives(r)
  /\ IF ~Authorized(from_number)
     THEN Finish(r, from_number, content, "Unauthorized")
     ELSE IF ~HasTrigger(content)
     THEN Finish(r, from_number, content, "Ignored")
     ELSE req' = [req EXCEPT ![r] =
                    [pc |-> "dedup", from_number |-> from_number,
                     content |-> content,
                     last_hash |-> GetRecent(from_number).hash,
                     last_time |-> GetRecent(from_number).time,
                     outcome |-> "none", empty |-> FALSE]]
  /\ UNCHANGED <<now, coreState, stores, sent, picks>>

\* Variant: the fingerprints are compared after the prefix is stripped, as
\* fingerprints of the prompts.
IsDuplicateOfPrompt(msg_hash, last_hash, last_time, t) ==
  /\ last_hash # NoHash
  /\ PromptOf(Tail(msg_hash)) = PromptOf(Tail(last_hash))
  /\ t - last_time < REPEAT_TIMEOUT

\* Variant: the window is closed at its end (<= for <).
IsDuplicateInclusive(msg_hash, last_hash, last_time, t) ==
  msg_hash = last_hash /\ t - last_time <= REPEAT_TIMEOUT

\* line 91
IsDuplicate(msg_hash, last_hash, last_time, t) ==
  msg_hash = last_hash /\ t - last_time < REPEAT_TIMEOUT

\* Variant: a repeated message renews the time of the sender's record.
DropDuplicateRefreshing(r) ==
  /\ req[r].pc = "dedup"
  /\ IsDuplicate(sha256(req[r].content), req[r].last_hash, req[r].last_time, now)
  /\ recent_messages' =
       [recent_messages EXCEPT ![req[r].from_number] =
          <<[hash |-> sha256(req[r].content), time |-> now]>>]
  /\ Finish(r, req[r].from_number, req[r].content, "DuplicateIgnored")
  /\ UNCHANGED <<now, user_contexts, pending_replies, send_timers, gateway_index,
                 gateway_lock, wrk, tmr, stores, sent, picks>>

\* lines 91-93: a repeated message is dropped
DropDuplicate(r) ==
  /\ req[r].pc = "dedup"
  /\ IsDuplicate(sha256(req[r].content), req[r].last_hash, req[r].last_time, now)
  /\ Finish(r, req[r].from_number, req[r].content, "DuplicateIgnored")
  /\ UNCHANGED <<now, coreState, stores, sent, picks>>

\* lines 91, 95-100: the message is recorded and its worker is started
Accept(r) ==
  /\ req[r].pc = "dedup"
  /\ ~IsDuplicate(sha256(req[r].content), req[r].last_hash, req[r].last_time, now)
  /\ recent_messages' =
       [recent_messages EXCEPT ![req[r].from_number] =
          <<[hash |-> sha256(req[r].content), time |-> now]>>]
  /\ wrk' = [wrk EXCEPT ![r] = [IdleWrk EXCEPT !.pc = "append",
                                  !.from_number = req[r].from_number,
                                  !.prompt = PromptOf(req[r].content)]]
  /\ Finish(r, req[r].from_number, req[r].content, "Accepted")
  /\ UNCHANGED <<now, user_contexts, pending_replies, send_timers,
                 gateway_index, gateway_lock, tmr, stores, sent, picks>>

\* ------------------------------ get_deepseek_response (129-157)
\* line 136
AppendUser(w) ==
  /\ wrk[w].pc = "append"
  /\ user_contexts' =
       [user_contexts EXCEPT ![wrk[w].from_number] = Append(@, UserTurn(wrk[w].prompt))]
  /\ wrk' = [wrk EXCEPT ![w].pc = "trim"]
  /\ UNCHANGED <<now, recent_messages, pending_replies, send_timers,
                 gateway_index, gateway_lock, req, tmr, stores, sent, picks>>

\* line 137, and the right-hand side of line 138: the slice is a new list
TrimRead(w) ==
  /\ wrk[w].pc = "trim"
  /\ IF Len(user_contexts[wrk[w].from_number]) > MAX_CONTEXT_LEN
     THEN wrk' = [wrk EXCEPT ![w].pc = "assign",
                             ![w].kept = LastTurns(user_contexts[wrk[w].from_number])]
     ELSE wrk' = [wrk EXCEPT ![w].pc = "post"]
  /\ UNCHANGED <<now, recent_messages, user_contexts, pending_replies, send_timers,
                 gateway_index, gateway_lock, req, tmr, stores, sent, picks>>

\* the assignment of line 138
TrimAssign(w) ==
  /\ wrk[w].pc = "assign"
  /\ user_contexts' = [user_contexts EXCEPT ![wrk[w].from_number] = wrk[w].kept]
  /\ wrk' = [wrk EXCEPT ![w].pc = "post", ![w].kept = <<>>]
  /\ UNCHANGED <<now, recent_messages, pending_replies, send_timers,
                 gateway_index, gateway_lock, req, tmr, stores, sent, picks>>

\* lines 148-154: status 200 with a well-formed body whose text has lead
\* blanks, core characters and trail blanks
ReplyOk(w, lead, core, trail) ==
  /\ wrk[w].pc = "post"
  /\ LET reply == TextStrip(Gen(w, lead, core, trail, FALSE))
     IN /\ user_contexts' =
             [user_contexts EXCEPT ![wrk[w].from_number] =
                Append(@, AssistantTurn(reply))]
        /\ wrk' = [wrk EXCEPT ![w].pc = "store", ![w].reply = <<Truncate(reply)>>,
                                ![w].resp = <<Response(200, lead, core, trail)>>]
  /\ UNCHANGED <<now, recent_messages, pending_replies, send_timers,
                 gateway_index, gateway_lock, req, tmr, stores, sent, picks>>

\* Variant: the fallback is recorded as the assistant's turn.
ReplyStatusRecorded(w) ==
  /\ wrk[w].pc = "post"
  /\ user_contexts' =
       [user_contexts EXCEPT ![wrk[w].from_number] =
          Append(@, AssistantTurn(API_ERROR_REPLY))]
  /\ wrk' = [wrk EXCEPT ![w].pc = "store", ![w].reply = <<API_ERROR_REPLY>>,
                          ![w].resp = <<Response(500, 0, 0, 0)>>]
  /\ UNCHANGED <<now, recent_messages, pending_replies, send_timers,
                 gateway_index, gateway_lock, req, tmr, stores, sent, picks>>

\* lines 155-157: any other status
ReplyStatus(w) ==
  /\ wrk[w].pc = "post"
  /\ wrk' = [wrk EXCEPT ![w].pc = "store", ![w].reply = <<API_ERROR_REPLY>>,
                          ![w].resp = <<Response(500, 0, 0, 0)>>]
  /\ UNCHANGED <<now, recent_messages, user_contexts, pending_replies, send_timers,
                 gateway_index, gateway_lock, req, tmr, stores, sent, picks>>

\* Variant: the call of line 109 is not inside try/except, and an exception
\* ends the worker thread.
ReplyRaisesUncaught(w) ==
  /\ wrk[w].pc = "post"
  /\ wrk' = [wrk EXCEPT ![w] =
               [DoneWrk(wrk[w].from_number, <<Response(0, 0, 0, 0)>>, <<>>)
                  EXCEPT !.pc = "crashed"]]
  /\ UNCHANGED <<now, recent_messages, user_contexts, pending_replies, send_timers,
                 gateway_index, gateway_lock, req, tmr, stores, sent, picks>>

\* lines 110-112: requests.post raises, or the body of a 200 response has
\* no choices[0].message.content
ReplyRaises(w) ==
  /\ wrk[w].pc = "post"
  /\ wrk' = [wrk EXCEPT ![w].pc = "store", ![w].reply = <<UNAVAILABLE_REPLY>>,
                          ![w].resp = <<Response(0, 0, 0, 0)>>]
  /\ UNCHANGED <<now, recent_messages, user_contexts, pending_replies, send_timers,
                 gateway_index, gateway_lock, req, tmr, stores, sent, picks>>

\* ---------------------------- process_prompt_with_delay (114-121)
\* line 114
Store(w) ==
  /\ wrk[w].pc = "store"
  /\ pending_replies' = [pending_replies EXCEPT ![wrk[w].from_number] = wrk[w].reply]
  /\ wrk' = [wrk EXCEPT ![w].pc = "check", ![w].prompt = <<>>]
  /\ stores' = Append(stores, [w |-> w, at |-> now,
                                from_number |-> wrk[w].from_number,
                                reply |-> wrk[w].reply[1]])
  /\ UNCHANGED <<now, recent_messages, user_contexts, send_timers,
                 gateway_index, gateway_lock, req, tmr, sent, picks>>

\* line 116
CheckTimer(w) ==
  /\ wrk[w].pc = "check"
  /\ wrk' = [wrk EXCEPT ![w].pc =
               IF send_timers[wrk[w].from_number] # <<>> THEN "cancel" ELSE "set"]
  /\ UNCHANGED <<now, recent_messages, user_contexts, pending_replies, send_timers,
                 gateway_index, gateway_lock, req, tmr, stores, sent, picks>>

\* line 117: send_timers[from_number] raises KeyError when the entry was
\* popped since line 116, and the worker thread ends there
CancelTimer(w) ==
  /\ wrk[w].pc = "cancel"
  /\ IF send_timers[wrk[w].from_number] = <<>>
     THEN /\ wrk' = [wrk EXCEPT ![w] = [DoneWrk(wrk[w].from_number, wrk[w].resp, wrk[w].reply)
                                        EXCEPT !.pc = "crashed"]]
          /\ UNCHANGED tmr
     ELSE /\ wrk' = [wrk EXCEPT ![w].pc = "set"]
          /\ tmr' = [tmr EXCEPT ![send_timers[wrk[w].from_number][1]].cancelled = TRUE]
  /\ UNCHANGED <<now, recent_messages, user_contexts, pending_replies, send_timers,
                 gateway_index, gateway_lock, req, stores, sent, picks>>

\* lines 119-121
SetTimer(w) ==
  /\ wrk[w].pc = "set"
  /\ tmr' = [tmr EXCEPT ![w] = [IdleTmr EXCEPT !.pc = "waiting",
                                  !.from_number = wrk[w].from_number,
                                  !.started = now]]
  /\ send_timers' = [send_timers EXCEPT ![wrk[w].from_number] = <<w>>]
  /\ wrk' = [wrk EXCEPT ![w] = DoneWrk(wrk[w].from_number, wrk[w].resp, wrk[w].reply)]
  /\ UNCHANGED <<now, recent_messages, user_contexts, pending_replies,
                 gateway_index, gateway_lock, req, stores, sent, picks>>

\* ------------------------------------- send_pending_reply (123-127)
\* threading.Timer.run: the interval has elapsed and cancel() was not
\* called; the callback starts with line 124
Fire(t) ==
  /\ tmr[t].pc = "waiting"
  /\ ~tmr[t].cancelled
  /\ now >= tmr[t].started + TIMER_INTERVAL
  /\ tmr' = [tmr EXCEPT ![t].pc = "popped",
                        ![t].reply = pending_replies[tmr[t].from_number]]
  /\ pending_replies' = [pending_replies EXCEPT ![tmr[t].from_number] = <<>>]
  /\ UNCHANGED <<now, recent_messages, user_contexts, send_timers,
                 gateway_index, gateway_lock, req, wrk, stores, sent, picks>>

\* "if reply:" is false for None and for the empty string
Truthy(reply) == reply # <<>> /\ TextLen(reply[1]) > 0

\* lines 125-126
Unregister(t) ==
  /\ tmr[t].pc = "popped"
  /\ send_timers' = [send_timers EXCEPT ![tmr[t].from_number] = <<>>]
  /\ tmr' = [tmr EXCEPT ![t] = IF Truthy(tmr[t].reply)
                                 THEN [tmr[t] EXCEPT !.pc = "pick"]
                                 ELSE DoneTmr(tmr[t].from_number)]
  /\ UNCHANGED <<now, recent_messages, user_contexts, pending_replies,
                 gateway_index, gateway_lock, req, wrk, stores, sent, picks>>

\* ------------------------------------------- pick_gateway (35-40)
\* Variant: pick_gateway does not take the lock.
LockIgnored == TRUE

\* "with gateway_lock:" is entered only while no thread holds the lock
LockFree == gateway_lock = 0

\* lines 37-38
PickRead(t) ==
  /\ tmr[t].pc = "pick"
  /\ LockFree
  /\ gateway_lock' = t
  /\ tmr' = [tmr EXCEPT ![t].pc = "advance", ![t].gw = gateway_index]
  /\ picks' = Append(picks, gateway_index)
  /\ UNCHANGED <<now, recent_messages, user_contexts, pending_replies, send_timers,
                 gateway_index, req, wrk, stores, sent>>

\* lines 39-40 and 161-172: the cursor advances, the lock is released and
\* the message is posted to the gateway that was read
Deliver(t) ==
  /\ tmr[t].pc = "advance"
  /\ gateway_index' = NextIndex(gateway_index)
  /\ gateway_lock' = 0
  /\ sent' = Append(sent, [to_number |-> tmr[t].from_number,
                           content |-> tmr[t].reply[1],
                           phone_id |-> GATEWAYS[tmr[t].gw].PHONE_ID,
                           timer |-> t])
  /\ tmr' = [tmr EXCEPT ![t] = DoneTmr(tmr[t].from_number)]
  /\ UNCHANGED <<now, recent_messages, user_contexts, pending_replies, send_timers,
                 req, wrk, stores, picks>>

\* ------------------------------------------------ the environment
ChatA == <<"C", "h", "a", "t", " ", "A">>
ChatB == <<"C", "h", "a", "t", " ", "B">>
LowerChatA == <<"c", "h", "a", "t", " ", "A">>
PaddedChatA == <<" ", "C", "h", "a", "t", " ", "A">>
HiChat == <<"H", "i", " ", "C", "h", "a", "t">>

\* The clock advances by a d of ticks, up to maxTime.
Clock(maxTime, ticks) == \E d \in ticks : now + d <= maxTime /\ Tick(d)

\* A step of a server thread.  A request arrives only while fewer than conc
\* requests are being served; it carries a from_number of froms and a
\* content of contents.
Inbound(conc, froms, contents) ==
  \/ \E r \in Threads : Cardinality(Busy) < conc /\ ReceiveEmpty(r)
  \/ \E r \in Threads, f \in froms, c \in contents :
       Cardinality(Busy) < conc /\ Receive(r, f, c)
  \/ \E r \in Threads : DropDuplicate(r)
  \/ \E r \in Threads : Accept(r)

\* A step of a worker before and after its call of the backend
Worker ==
  \/ \E w \in Threads : AppendUser(w)
  \/ \E w \in Threads : TrimRead(w)
  \/ \E w \in Threads : TrimAssign(w)
  \/ \E w \in Threads : Store(w)
  \/ \E w \in Threads : CheckTimer(w)
  \/ \E w \in Threads : CancelTimer(w)
  \/ \E w \in Threads : SetTimer(w)

\* The backend answers 200 with a text whose <<lead, core, trail>> is in shapes
Answers(shapes) == \E w \in Threads, sh \in shapes : ReplyOk(w, sh[1], sh[2], sh[3])

\* The backend fails
Failures ==
  \/ \E w \in Threads : ReplyStatus(w)
  \/ \E w \in Threads : ReplyRaises(w)

\* A step of a timer thread
Timers ==
  \/ \E t \in Threads : Fire(t)
  \/ \E t \in Threads : Unregister(t)
  \/ \E t \in Threads : PickRead(t)
  \/ \E t \in Threads : Deliver(t)

Cold(n) == InitAfter(0, n)
Warm(n) == InitAfter(Past, n)

\* <<lead, core, trail>> of the texts the backend answers with
OneShape == {<<0, 1, 0>>}
Shapes ==
  {<<0, 1, 0>>, <<0, 0, 1>>, <<1, MAX_SMS_CHARS, 1>>, <<0, MAX_SMS_CHARS + 1, 0>>}

\* The whole pipeline: requests of a sender on the allow-list and of one
\* that is not, one request at a time; the backend answers or fails.
Init == Cold(NewRequests) \/ Warm(NewRequests)
Next ==
  \/ Clock(TIMER_INTERVAL, {TIMER_INTERVAL})
  \/ Inbound(1, {"a", "x"}, {ChatA, ChatB, HiChat})
  \/ Worker
  \/ Answers(OneShape)
  \/ Failures
  \/ Timers
Spec == Init /\ [][Next]_vars

\* The replies: every shape of backend text, for requests of one sender.
InitReply == Cold(NewRequests) \/ Warm(NewRequests)
NextReply ==
  \/ Clock(TIMER_INTERVAL, {TIMER_INTERVAL})
  \/ Inbound(1, {"a"}, {ChatA, ChatB})
  \/ Worker
  \/ Answers(Shapes)
  \/ Failures
  \/ Timers
SpecReply == InitReply /\ [][NextReply]_vars

\* The inbound handler: every kind of sender and of content, one request at
\* a time, and a clock that moves around REPEAT_TIMEOUT.
InitInbound == Cold(NewRequests) \/ Warm(NewRequests)
NextInbound ==
  \/ Clock(REPEAT_TIMEOUT, {REPEAT_TIMEOUT - 1, REPEAT_TIMEOUT})
  \/ Inbound(1, {"a", "b", "x", NoNumber},
             {ChatA, LowerChatA, PaddedChatA, HiChat, <<>>})
  \/ Worker
  \/ Answers(OneShape)
  \/ Timers
SpecInbound == InitInbound /\ [][NextInbound]_vars

\* The debouncer: three requests of one sender, which the backend answers.
InitDebounce == Warm(NewRequests + 1)
NextDebounce ==
  \/ Clock(Horizon * TIMER_INTERVAL, {TIMER_INTERVAL})
  \/ Inbound(1, {"a"}, {ChatA, ChatB})
  \/ Worker
  \/ Answers(OneShape)
  \/ Timers
SpecDebounce == InitDebounce /\ [][NextDebounce]_vars

\* The gateway selector: requests of two senders arrive one after the other,
\* and their timers expire together.
InitGateway == Cold(NumGateways + 1) \/ Warm(NewRequests)
NextGateway ==
  \/ Clock(Horizon * TIMER_INTERVAL, {TIMER_INTERVAL})
  \/ Inbound(1, {"a", "b"}, {ChatA, ChatB})
  \/ Worker
  \/ Answers(OneShape)
  \/ Timers
SpecGateway == InitGateway /\ [][NextGateway]_vars

\* Two requests of one sender served at the same time: their server
\* threads, their workers and the timer callbacks interleave freely.
InitRace == Cold(NewRequests) \/ Warm(NewRequests)
NextRace ==
  \/ Clock(TIMER_INTERVAL, {TIMER_INTERVAL})
  \/ Inbound(2, {"a"}, {ChatA, ChatB})
  \/ Worker
  \/ Answers(OneShape)
  \/ Timers
SpecRace == InitRace /\ [][NextRace]_vars

\* Two senders who send the same message, served at the same time.
InitSenders == Cold(NewRequests) \/ Warm(NewRequests)
NextSenders ==
  \/ Clock(TIMER_INTERVAL, {TIMER_INTERVAL})
  \/ Inbound(2, {"a", "b"}, {ChatA})
  \/ Worker
  \/ Answers(OneShape)
  \/ Timers
SpecSenders == InitSenders /\ [][NextSenders]_vars

\* ------------------------------------------------------------ claims
\* The requests that carried a payload and have been answered.
Answered == {r \in Threads : req[r].pc = "done" /\ ~req[r].empty}

\* C1: a request whose sender is missing or is not on the allow-list is
\* answered Unauthorized, whatever its content and whatever the state.
C1_Unauthorized ==
  \A r \in Answered :
    (req[r].from_number = NoNumber \/ req[r].from_number \notin WHITELIST)
      => req[r].outcome = "Unauthorized"

\* A stranger's message with the trigger and a message without sender have
\* both been answered Unauthorized, while sender "a" has a dedup record.
C1_Witness ==
  /\ recent_messages["a"] # <<>>
  /\ \E r \in Answered :
       req[r].from_number = "x" /\ req[r].content = ChatA
         /\ req[r].outcome = "Unauthorized"
  /\ \E r \in Answered :
       req[r].from_number = NoNumber /\ req[r].outcome = "Unauthorized"

\* The content, after leading blanks, begins with the letters of the
\* trigger prefix in either case.
BeginsWithTrigger(content) ==
  \E i \in 0 .. Len(content) :
    /\ \A j \in 1 .. i : content[j] = " "
    /\ Len(content) >= i + Len(TRIGGER_PREFIX)
    /\ \A j \in 1 .. Len(TRIGGER_PREFIX) :
         LowerChar(content[i + j]) = LowerChar(TRIGGER_PREFIX[j])

\* C2: a message of an allow-listed sender whose content does not begin
\* with the trigger prefix is answered Ignored, whatever the sender's dedup
\* record is.
C2_Ignored ==
  \A r \in Answered :
    (req[r].from_number \in WHITELIST /\ ~BeginsWithTrigger(req[r].content))
      => req[r].outcome = "Ignored"

\* "Hi Chat" of sender "a" has been answered Ignored while "a" has a dedup
\* record, and so has an empty content.
C2_Witness ==
  /\ recent_messages["a"] # <<>>
  /\ \E r \in Answered :
       req[r].from_number = "a" /\ req[r].content = HiChat
         /\ req[r].outcome = "Ignored"
  /\ \E r \in Answered :
       req[r].from_number = "a" /\ req[r].content = <<>>
         /\ req[r].outcome = "Ignored"

\* The server thread r is at the dedup check, and the record of its sender
\* that it read when the message arrived has the fingerprint of the content
\* and is less than REPEAT_TIMEOUT seconds old.
SeenWithinWindow(r) ==
  /\ req[r].last_hash = sha256(req[r].content)
  /\ now - req[r].last_time < REPEAT_TIMEOUT

\* C3: a trigger-prefixed message of an allow-listed sender is answered
\* DuplicateIgnored if and only if the sender's dedup record, as the message
\* found it, has the fingerprint of its content and was recorded less than
\* REPEAT_TIMEOUT seconds before the check; otherwise it is Accepted.
C3_DuplicateIffRecent ==
  [][\A r \in Threads :
       (req[r].pc = "dedup" /\ req'[r].pc = "done")
         => /\ req'[r].outcome = (IF SeenWithinWindow(r) THEN "DuplicateIgnored"
                                                        ELSE "Accepted")
            /\ req[r].from_number \in WHITELIST
            /\ BeginsWithTrigger(req[r].content)]_vars

\* "Chat A" was accepted exactly REPEAT_TIMEOUT seconds after the same
\* message, and again "Chat A", REPEAT_TIMEOUT - 1 seconds later, was not.
C3_Witness ==
  /\ Past + 2 \in Threads
  /\ now = REPEAT_TIMEOUT - 1
  /\ req[Past + 1].pc = "done" /\ req[Past + 1].outcome = "Accepted"
  /\ req[Past + 1].from_number = "a" /\ req[Past + 1].content = ChatA
  /\ req[Past + 2].pc = "done" /\ req[Past + 2].outcome = "DuplicateIgnored"
  /\ req[Past + 2].from_number = "a" /\ req[Past + 2].content = ChatA


\* The senders one of whose workers is between line 136 and line 138: it
\* has appended the user turn and has not cut the list yet.
Trimming == {wrk[w].from_number : w \in {v \in Threads : wrk[v].pc \in {"trim", "assign"}}}

\* C4: the context of every sender holds at most MAX_CONTEXT_LEN turns, once
\* the user turn has been appended and the list cut, and also once the
\* assistant turn has been appended.
C4_ContextBounded ==
  \A m \in Numbers : m \notin Trimming => Len(user_contexts[m]) <= MAX_CONTEXT_LEN


\* The deliveries that carry the reply stored as stores[i]: in SpecDebounce
\* every reply is the text of its own worker.
DeliveriesOf(i) ==
  {k \in DOMAIN sent : /\ sent[k].to_number = stores[i].from_number
                       /\ sent[k].content = stores[i].reply}

\* Two replies for one sender reached line 114 less than TIMER_INTERVAL apart.
WithinQuietPeriod(i, j) ==
  /\ i < j
  /\ stores[i].from_number = stores[j].from_number
  /\ stores[j].at - stores[i].at < TIMER_INTERVAL

\* C5: of two replies for one sender that reach the debouncer within the
\* quiet period of each other, the earlier one is never delivered and the
\* later one is delivered at most once, in every interleaving of the
\* workers and the timer callbacks.
C5_OnlyLaterDelivered ==
  \A i, j \in DOMAIN stores :
    WithinQuietPeriod(i, j) =>
      /\ DeliveriesOf(i) = {}
      /\ Cardinality(DeliveriesOf(j)) <= 1


\* C6: the k-th call of pick_gateway returns the gateway at position
\* (k - 1) mod N of GATEWAYS, so that N calls in a row return every gateway
\* once, in list order, and call N + 1 returns the first one again; the
\* k-th message goes out through the gateway of the k-th call.
C6_RoundRobin ==
  /\ \A k \in DOMAIN picks : picks[k] = (k - 1) % NumGateways
  /\ \A k \in DOMAIN sent : sent[k].phone_id = GATEWAYS[(k - 1) % NumGateways].PHONE_ID

\* From start-up, N + 1 messages have gone out.
C6_Witness ==
  /\ 1 \in Threads
  /\ Len(picks) = NumGateways + 1
  /\ Len(sent) = NumGateways + 1


\* A step of worker w that has got a non-success status from the backend.
FailedStep(w) ==
  /\ wrk'[w] # wrk[w]
  /\ wrk'[w].resp # <<>>
  /\ wrk'[w].resp[1].status \notin {200, 0}

\* C7: a worker whose backend call returns a non-success status computes
\* the fixed fallback string as its reply and hands it to the debouncer, and
\* none of its steps appends a turn to any context.
C7_FallbackNotRecorded ==
  [][\A w \in Threads :
       FailedStep(w) =>
         /\ wrk'[w].reply = <<API_ERROR_REPLY>>
         /\ user_contexts' = user_contexts
         /\ wrk[w].pc = "store" =>
              pending_replies'[wrk[w].from_number] = <<API_ERROR_REPLY>>]_vars

\* The fallback has been delivered to a sender whose context ends with the
\* user turn of the failed exchange.
C7_Witness ==
  \E w \in Threads :
    /\ wrk[w].pc = "done"
    /\ wrk[w].resp = <<Response(500, 0, 0, 0)>>
    /\ \E k \in DOMAIN sent : sent[k].timer = w /\ sent[k].content = API_ERROR_REPLY
    /\ LET ctx == user_contexts[wrk[w].from_number]
       IN ctx # <<>> /\ ctx[Len(ctx)].role = "user"

\* The text delivery is to get for the 200 answer resp to worker w, whose
\* reply (the content of the answer, as line 149 extracts it) has L = core
\* characters.
ExpectedText(w, resp) ==
  IF resp.core > MAX_SMS_CHARS
  THEN Gen(w, 0, MAX_SMS_CHARS, 0, TRUE)
  ELSE Gen(w, 0, resp.core, 0, FALSE)

Succeeded == {w \in Threads : wrk[w].resp # <<>> /\ wrk[w].resp[1].status = 200}

\* C8: the text handed over for a successful reply of L characters is its
\* first MAX_SMS_CHARS characters followed by the marker if L > MAX_SMS_CHARS,
\* and the reply itself if L <= MAX_SMS_CHARS: this is the text the worker
\* returns, the text it stores for the timer, and the text that is sent.
C8_Truncation ==
  \A w \in Succeeded :
    LET text == ExpectedText(w, wrk[w].resp[1])
    IN /\ wrk[w].reply = <<text>>
       /\ \A i \in DOMAIN stores : stores[i].w = w => stores[i].reply = text
       /\ \A m \in Numbers :
            (pending_replies[m] # <<>> /\ pending_replies[m][1].kind = "gen"
               /\ pending_replies[m][1].id = w) => pending_replies[m][1] = text
       /\ \A k \in DOMAIN sent :
            (sent[k].content.kind = "gen" /\ sent[k].content.id = w) =>
              /\ sent[k].content = text
              /\ TextLen(sent[k].content) =
                   IF wrk[w].resp[1].core > MAX_SMS_CHARS
                   THEN MAX_SMS_CHARS + MarkerLen
                   ELSE wrk[w].resp[1].core

\* A reply of MAX_SMS_CHARS characters between blanks has gone out as its
\* MAX_SMS_CHARS characters, and a reply of MAX_SMS_CHARS + 1 characters is
\* stored for the timer, cut and marked.
C8_Witness ==
  /\ \E k \in DOMAIN sent, w \in Succeeded :
       /\ sent[k].timer = w
       /\ wrk[w].resp[1] = Response(200, 1, MAX_SMS_CHARS, 1)
       /\ sent[k].content = Gen(w, 0, MAX_SMS_CHARS, 0, FALSE)
  /\ \E m \in Numbers, w \in Succeeded :
       /\ wrk[w].resp[1].core = MAX_SMS_CHARS + 1
       /\ pending_replies[m] = <<Gen(w, 0, MAX_SMS_CHARS, 0, TRUE)>>

\* The timer threads that have read the cursor and not advanced it yet.
Selecting == {t \in Threads : tmr[t].pc = "advance"}

\* C9: no two selections observe the same value of the cursor before it
\* advances.  At most one thread is between reading and advancing the
\* cursor, and the value it has read is the cursor's; the values handed out
\* follow one another by one position mod N, so m selections that start at
\* cursor c get c, c + 1, ..., c + m - 1 (mod N), and the cursor ends m
\* positions further.
C9_DistinctCursors ==
  /\ Cardinality(Selecting) <= 1
  /\ \A t \in Selecting : gateway_lock = t /\ tmr[t].gw = gateway_index
  /\ \A k \in DOMAIN picks :
       k > 1 => picks[k] = (picks[k - 1] + 1) % NumGateways
  /\ picks # <<>> =>
       gateway_index =
         (picks[1] + Len(picks) - Cardinality(Selecting)) % NumGateways

\* Two deliveries are in flight: one thread has read the cursor and another
\* one is waiting for the lock.
C9_Witness ==
  \E t, u \in Threads :
    /\ t # u
    /\ tmr[t].pc = "advance"
    /\ tmr[u].pc = "pick"

Rejections == {"Unauthorized", "Ignored", "DuplicateIgnored"}

\* A step of the server thread of r, for a message that is rejected with
\* this step or may still be rejected (its dedup record has been read).
RejectingStep(r) ==
  /\ req'[r] # req[r]
  /\ \/ req'[r].pc = "done" /\ req'[r].outcome \in Rejections
     \/ req'[r].pc = "dedup"

\* C10: handling a message that is answered Unauthorized, Ignored or
\* DuplicateIgnored changes neither the dedup records (a duplicate does not
\* renew the time of its sender's record), nor any context, pending reply,
\* timer or the gateway cursor, and starts no worker and no delivery.
C10_RejectedNoEffect ==
  [][\A r \in Threads :
       RejectingStep(r) => UNCHANGED <<coreState, stores, sent, picks>>]_vars

\* A duplicate has been dropped after the time of its sender's record.
C10_Witness ==
  \E r \in Threads :
    /\ req[r].pc = "done"
    /\ req[r].outcome = "DuplicateIgnored"
    /\ recent_messages[req[r].from_number] # <<>>
    /\ recent_messages[req[r].from_number][1].time < now

\* The outcome a message of from_number with this content is to get; seen
\* tells whether the sender's dedup record has the fingerprint of the
\* content and is less than REPEAT_TIMEOUT seconds old.
ExpectedOutcome(from_number, content, seen) ==
  IF from_number = NoNumber \/ from_number \notin WHITELIST THEN "Unauthorized"
  ELSE IF ~BeginsWithTrigger(content) THEN "Ignored"
  ELSE IF seen THEN "DuplicateIgnored"
  ELSE "Accepted"

\* The step with which the server thread of r returns its answer.
AnsweringStep(r) == req[r].pc # "done" /\ req'[r].pc = "done" /\ ~req'[r].empty

\* The step with which the backend call of worker w ends without a
\* 200 answer: another status, or an exception.
BackendFails(w) ==
  /\ wrk[w].pc = "post"
  /\ wrk'[w] # wrk[w]
  /\ wrk'[w].resp = <<>> \/ wrk'[w].resp[1].status # 200

\* C11: the outcome of a message is decided by its sender, its text, the
\* dedup record and the time alone, and Accepted is returned when the worker
\* has only been started; a failure of the backend, of whatever kind, changes
\* no outcome and does not end the worker, which goes on to hand a fallback
\* text to the debouncer, and it changes nothing else.
C11_OutcomeIndependent ==
  [][/\ \A r \in Threads :
          AnsweringStep(r) =>
            /\ req'[r].outcome =
                 ExpectedOutcome(req'[r].from_number, req'[r].content,
                                 req[r].pc = "dedup" /\ SeenWithinWindow(r))
            /\ req'[r].outcome = "Accepted" => wrk'[r].pc = "append"
     /\ \A w \in Threads :
          BackendFails(w) =>
            /\ req' = req
            /\ wrk'[w].pc = "store"
            /\ wrk'[w].reply \in {<<API_ERROR_REPLY>>, <<UNAVAILABLE_REPLY>>}
            /\ UNCHANGED <<recent_messages, user_contexts, pending_replies,
                           send_timers, gateway_index, gateway_lock, tmr,
                           stores, sent, picks>>]_vars

\* The backend call for an accepted message raised an exception, and the
\* fallback text has been delivered to the sender.
C11_Witness ==
  \E r \in Threads :
    /\ req[r].pc = "done" /\ req[r].outcome = "Accepted"
    /\ wrk[r].pc = "done"
    /\ wrk[r].resp = <<Response(0, 0, 0, 0)>>
    /\ \E k \in DOMAIN sent :
         /\ sent[k].timer = r
         /\ sent[k].to_number = req[r].from_number
         /\ sent[k].content = UNAVAILABLE_REPLY

\* The timers of sender m that have been started, have not been cancelled
\* and have not fired yet.
LiveTimers(m) ==
  {t \in Threads : /\ tmr[t].pc = "waiting"
                   /\ ~tmr[t].cancelled
                   /\ tmr[t].from_number = m}

\* C12: every sender has at most one live timer, whichever way the workers
\* of that sender interleave.
C12_OneLiveTimer == \A m \in Numbers : Cardinality(LiveTimers(m)) <= 1

\* C13: a worker that reschedules while the earlier timer of its sender is
\* firing does not fail in lines 116-121, and no stored reply is delivered
\* twice, in every interleaving of the worker and the callback.
C13_RescheduleSafe ==
  /\ \A w \in Threads : wrk[w].pc # "crashed"
  /\ \A i \in DOMAIN stores : Cardinality(DeliveriesOf(i)) <= 1

\* The requests of sender m that have been answered Accepted.
AcceptedOf(m) ==
  {q \in Threads : /\ req[q].pc = "done"
                   /\ req[q].outcome = "Accepted"
                   /\ req[q].from_number = m}

\* C14: the dedup check and the overwrite of the record are one step: two
\* identical messages of one sender handled within REPEAT_TIMEOUT of each
\* other, also at the same time, are not both Accepted, unless a message
\* with another content was accepted from that sender and replaced the
\* record in between.  (The clock of SpecRace stays within REPEAT_TIMEOUT.)
C14_DedupAtomic ==
  \A m \in WHITELIST :
    \A r, q \in AcceptedOf(m) :
      (r # q /\ req[r].content = req[q].content)
        => \E p \in AcceptedOf(m) : req[p].content # req[r].content

\* new is old without some of its oldest turns, of which MAX_CONTEXT_LEN
\* at least are left if any was dropped.
DropsOldest(old, new) ==
  /\ Len(new) <= Len(old)
  /\ new = SubSeq(old, Len(old) - Len(new) + 1, Len(old))
  /\ Len(new) < Len(old) => Len(new) >= MAX_CONTEXT_LEN

\* new is old with one more turn at its end.
AppendsOne(old, new) ==
  /\ Len(new) = Len(old) + 1
  /\ SubSeq(new, 1, Len(old)) = old

\* C15: no turn of a context is lost except by dropping the oldest turns
\* beyond MAX_CONTEXT_LEN: every step leaves each sender's context as it
\* was, appends one turn to it or drops oldest turns from it, also while
\* two workers of that sender run at the same time.
C15_NoLostTurn ==
  [][\A m \in Numbers :
       \/ DropsOldest(user_contexts[m], user_contexts'[m])
       \/ AppendsOne(user_contexts[m], user_contexts'[m])]_vars

\* The context of the sender of worker w.
ContextOf(w) == user_contexts[wrk[w].from_number]

\* Worker w completes the append of its user turn (lines 136-138) to a
\* context that held MAX_CONTEXT_LEN turns before line 136.
UserAppendToFull(w) ==
  /\ wrk[w].pc \in {"trim", "assign"}
  /\ wrk'[w].pc = "post"
  /\ Len(ContextOf(w)) = MAX_CONTEXT_LEN + 1

\* Worker w appends its assistant turn (line 150) to a context that holds
\* MAX_CONTEXT_LEN turns.
AssistantAppendToFull(w) ==
  /\ wrk[w].pc = "post"
  /\ wrk'[w].pc = "store"
  /\ wrk'[w].resp[1].status = 200
  /\ Len(ContextOf(w)) = MAX_CONTEXT_LEN

\* C16: appending a turn to a context of MAX_CONTEXT_LEN turns drops exactly
\* the oldest turn: the second-oldest turn becomes the oldest, the others
\* keep their order and the new turn is last; for the append of a user turn
\* and for the append of an assistant turn.
C16_DropsExactlyOldest ==
  [][\A w \in Threads :
       /\ UserAppendToFull(w) =>
            /\ user_contexts'[wrk[w].from_number] = Tail(ContextOf(w))
            /\ ContextOf(w)[MAX_CONTEXT_LEN + 1] = UserTurn(wrk[w].prompt)
       /\ AssistantAppendToFull(w) =>
            LET new == user_contexts'[wrk[w].from_number]
            IN /\ Len(new) = MAX_CONTEXT_LEN
               /\ SubSeq(new, 1, MAX_CONTEXT_LEN - 1) = Tail(ContextOf(w))
               /\ new[MAX_CONTEXT_LEN].role = "assistant"]_vars

\* What the program holds for sender m: the dedup record, the context, the
\* pending reply, the registered timer, and the timers started for m.
SenderState(m) ==
  <<recent_messages[m], user_contexts[m], pending_replies[m], send_timers[m],
    [t \in {u \in Threads : tmr[u].from_number = m} |-> tmr[t]]>>

\* The senders on whose behalf a step is taken: those of the server
\* threads, workers and timer threads that the step moves.
Actors ==
  {req'[r].from_number : r \in {q \in Threads : req'[q] # req[q]}}
    \cup {wrk'[w].from_number : w \in {v \in Threads : wrk'[v] # wrk[v]}}
    \cup {tmr'[t].from_number : t \in {u \in Threads : tmr'[u] # tmr[u]}}

\* A message has been rejected as a duplicate only if the same content was
\* accepted from the same sender.
DuplicatesOwn ==
  \A r \in Threads :
    (req[r].pc = "done" /\ req[r].outcome = "DuplicateIgnored") =>
      \E q \in AcceptedOf(req[r].from_number) :
        q # r /\ req[q].content = req[r].content

\* Every reply delivered went to the sender of the message it was computed
\* for (the text of worker w answers request w).
DeliveredToOwn ==
  \A k \in DOMAIN sent :
    (sent[k].content.kind = "gen" /\ sent[k].content.id \in Threads) =>
      req[sent[k].content.id].from_number = sent[k].to_number

\* C17: the state kept for a sender changes only in steps taken for a
\* message of that sender; no message is rejected as a duplicate because of
\* another sender's message; and every reply that is delivered goes to the
\* sender of the message it was computed for.
C17_SendersIndependent ==
  [][/\ \A m \in Numbers : SenderState(m)' # SenderState(m) => Actors = {m}
     /\ DuplicatesOwn'
     /\ DeliveredToOwn']_vars

\* Both senders have sent the same message at the same time, both were
\* accepted, and each has got the reply computed for its own message.
C17_Witness ==
  \E r, q \in Threads :
    /\ req[r].pc = "done" /\ req[r].from_number = "a" /\ req[r].outcome = "Accepted"
    /\ req[q].pc = "done" /\ req[q].from_number = "b" /\ req[q].outcome = "Accepted"
    /\ req[r].content = req[q].content
    /\ recent_messages["a"][1].time = recent_messages["b"][1].time
    /\ \E k, l \in DOMAIN sent :
         /\ sent[k].to_number = "a" /\ sent[k].content.id = r
         /\ sent[l].to_number = "b" /\ sent[l].content.id = q

\* The content whose fingerprint is hash.
ContentOf(hash) == Tail(hash)

\* Request r is answered by this step after the dedup check, and the record
\* of its sender that it read is less than REPEAT_TIMEOUT seconds old and is
\* the record of a message with the same prompt.
AnsweredAfterSamePrompt(r) ==
  /\ req[r].pc = "dedup" /\ req'[r].pc = "done"
  /\ req[r].last_hash # NoHash
  /\ now - req[r].last_time < REPEAT_TIMEOUT
  /\ PromptOf(ContentOf(req[r].last_hash)) = PromptOf(req[r].content)

\* C18: the dedup check is made on the prompt: a message that follows,
\* within REPEAT_TIMEOUT, a message of the same sender with the same prompt
\* is answered DuplicateIgnored.
C18_DedupOnPrompt ==
  [][\A r \in Threads :
       AnsweredAfterSamePrompt(r) => req'[r].outcome = "DuplicateIgnored"]_vars

\* C18 as amended: the dedup check is made on the content as received: a
\* message that follows, within REPEAT_TIMEOUT, a message of the same sender
\* with the same prompt is answered DuplicateIgnored if the two contents are
\* the same character for character, and Accepted if they are not.
C18_DedupOnContent ==
  [][\A r \in Threads :
       AnsweredAfterSamePrompt(r) =>
         req'[r].outcome =
           (IF ContentOf(req[r].last_hash) = req[r].content
            THEN "DuplicateIgnored" ELSE "Accepted")]_vars

\* "Chat A" and "chat A" of one sender have both been accepted within
\* REPEAT_TIMEOUT of each other, and they have the same prompt.
C18_Witness ==
  \E r, q \in Threads :
    /\ req[r].pc = "done" /\ req[q].pc = "done"
    /\ req[r].from_number = "a" /\ req[q].from_number = "a"
    /\ req[r].content = ChatA /\ req[q].content = LowerChatA
    /\ PromptOf(ChatA) = PromptOf(LowerChatA)
    /\ req[r].outcome = "Accepted" /\ req[q].outcome = "Accepted"
    /\ now < REPEAT_TIMEOUT
    /\ 1 \in Threads

\* The workers of sender m that have stored their reply and are about to
\* start its timer (lines 116-121).
Scheduling(m) ==
  {w \in Threads : wrk[w].from_number = m /\ wrk[w].pc \in {"check", "cancel", "set"}}

\* C19: no reply stays in pending_replies without a timer that will send
\* it: while a sender has a pending reply, a worker of that sender is about
\* to start a timer or a timer of that sender is live, whichever way the
\* workers and the timer callbacks interleave.
C19_NoStrandedReply ==
  \A m \in Numbers :
    pending_replies[m] # <<>> => (Scheduling(m) # {} \/ LiveTimers(m) # {})

\* The callback of timer t starts with this step and takes a reply out of
\* pending_replies, which it will send.
TakesReply(t) ==
  /\ tmr[t].pc = "waiting"
  /\ tmr'[t].pc = "popped"
  /\ tmr'[t].reply # <<>>

\* C20: a timer sends only a reply that was stored before the timer was
\* started: the reply a callback takes was stored as the pending reply of
\* the timer's sender at least TIMER_INTERVAL seconds earlier, so that a
\* timer started for an earlier reply never sends a later one early.
C20_QuietPeriodElapsed ==
  [][\A t \in Threads :
       TakesReply(t) =>
         \E i \in DOMAIN stores :
           /\ stores[i].from_number = tmr[t].from_number
           /\ stores[i].reply = tmr'[t].reply[1]
           /\ stores[i].at <= tmr[t].started
           /\ now - stores[i].at >= TIMER_INTERVAL]_vars

=============================================================================
